---- MODULE Spec2Model ----
(***************************************************************************)
(* The AppEEARS job tools of space_apps_mcp: the credential lease and the  *)
(* authenticated gateway of AppEEARSTools (appeears_tools.py) and the      *)
(* tool-facing job operations built on it (job_tools.py).                  *)
(*                                                                         *)
(* Every tool-facing operation is one action.  The remote API's answers    *)
(* are the inputs of an operation: each helper below returns the SET of    *)
(* outcomes the code can produce, one per answer the remote API can give,  *)
(* and the action picks one.  Time is counted in minutes and passes        *)
(* between operations (Tick).                                              *)
(***************************************************************************)
EXTENDS Integers, Sequences, FiniteSets, TLC

VARIABLES
    token,          \* AppEEARSTools.token
    token_expiry,   \* AppEEARSTools.token_expiry: None or Some(minute), buffered
    granted,        \* the remote API's expiry (UTC minute) of the login answer
                    \* that token_expiry was taken from
    now,            \* datetime.now(timezone.utc), in minutes
    task,           \* the remote job's "status" field, as the remote API reports it
    bundle,         \* the remote job's bundle listing, as the remote API reports it
    created,        \* the remote job's "created" field, as the remote API reports it
    folders,        \* the directories that exist under the download roots
    phase,          \* the caller: "idle", or "returned" holding the last call's record
    last,           \* the record of the last tool call: requests sent, result, effects
    callers,        \* threads inside _ensure_valid_token: where each of them is
    server,         \* token, token_expiry of the AppEEARSTools object of server.py
    renewal         \* the latest _refresh_token of the job tools' object: "ok",
                    \* "failed" (it raised), "recovered" (ok after one that raised)

vars == <<token, token_expiry, granted, now, task, bundle, created, folders, phase,
          last, callers, server, renewal>>

----------------------------------------------------------------------------
(* Bounds of the model *)

MaxTime == 3
MaxFiles == 3

(* timedelta(minutes=5) *)
Buffer == 5

----------------------------------------------------------------------------
(* Values *)

None == << >>
Some(x) == <<x>>

\* Python strings that the code takes apart (lower(), strptime) are sequences
\* of one-character strings.
UpperChars == <<"A","B","C","D","E","F","G","H","I","J","K","L","M",
                "N","O","P","Q","R","S","T","U","V","W","X","Y","Z">>
LowerChars == <<"a","b","c","d","e","f","g","h","i","j","k","l","m",
                "n","o","p","q","r","s","t","u","v","w","x","y","z">>

LowerChar(ch) ==
    IF \E i \in 1..Len(UpperChars) : UpperChars[i] = ch
    THEN LowerChars[CHOOSE i \in 1..Len(UpperChars) : UpperChars[i] = ch]
    ELSE ch

UpperChar(ch) ==
    IF \E i \in 1..Len(LowerChars) : LowerChars[i] = ch
    THEN UpperChars[CHOOSE i \in 1..Len(LowerChars) : LowerChars[i] = ch]
    ELSE ch

\* str.lower()
lower(s) == [i \in 1..Len(s) |-> LowerChar(s[i])]

\* A JSON field that is absent, and one that holds null.
Missing == <<"<missing>">>
NullValue == <<"<null>">>

IsStr(v) == v \notin {Missing, NullValue}

JobId == "j1"

----------------------------------------------------------------------------
(* The remote API's answers *)

\* An answer to a request: an HTTP response, or no response at all.
Response(code, body) == [kind |-> "response", code |-> code, body |-> body]
Transport == [kind |-> "transport", code |-> 0, body |-> [json |-> "none"]]

NoBody == [json |-> "none"]

\* Status codes the remote API answers a request with.
\* 304 stands for the answers that are neither 2xx nor 4xx/5xx.
SuccessCodes == {200}
OtherCodes == {304}
ErrorCodes == {405, 500}
LoginErrorCodes == {401, 500}

\* requests.Response.raise_for_status: HTTPError for 4xx and 5xx only.
RaisesForStatus(code) == 400 <= code /\ code < 600

\* POST /login answers: the token and the lifetime the remote API grants.
Tokens == {"tokA", "tokB"}
Lifetimes == {Buffer + 1, Buffer + 2}
Offsets == {0, 60}

\* The "expiration" field: an ISO-8601 wall-clock minute with its UTC offset
\* ("Z" is offset 0).
Expirations(t) ==
    {[instant |-> t + life, wall |-> t + life + off, offset |-> off] :
        life \in Lifetimes, off \in Offsets}

\* datetime.fromisoformat(s.replace("Z", "+00:00")): the instant in UTC.
fromisoformat(e) == e.wall - e.offset

LoginReplies(t) ==
    {Response(200, [json |-> "login", token |-> tk, expiration |-> e]) :
        tk \in Tokens, e \in Expirations(t)}
    \cup {Response(200, [json |-> "login_bad_expiration", token |-> tk]) :
        tk \in Tokens}
    \cup {Response(200, [json |-> "invalid"])}
    \cup {Response(c, NoBody) : c \in LoginErrorCodes}
    \cup {Transport}

----------------------------------------------------------------------------
(* Exceptions *)

NoExc == [type |-> "none", code |-> 0, msg |-> ""]
HTTPError(code) == [type |-> "HTTPError", code |-> code,
                    msg |-> ToString(code) \o " Error"]
ConnectionError == [type |-> "ConnectionError", code |-> 0,
                    msg |-> "Connection failed"]
JSONDecodeError == [type |-> "JSONDecodeError", code |-> 0,
                    msg |-> "Expecting value"]
PyException(msg) == [type |-> "Exception", code |-> 0, msg |-> msg]

----------------------------------------------------------------------------
(* AppEEARSTools: the credential lease and the gateway.  A context c is    *)
(* the object's fields together with the requests sent so far in the call. *)

NoPayload == [dates |-> << >>]

Call(method, endpoint, bearer, payload) ==
    [method |-> method, endpoint |-> endpoint, bearer |-> bearer,
     payload |-> payload]

NoBearer == "<basic auth>"

Ctx == [token |-> token, token_expiry |-> token_expiry, granted |-> granted,
        calls |-> << >>, answers |-> << >>, errors |-> << >>]

\* The outcome o of a request, with what the request raised ("" when it
\* returned) added to the context's log.
Logged(o) ==
    [o EXCEPT !.ctx.errors = Append(@, IF o.raised THEN o.exc.msg ELSE "")]

\* A variant of _refresh_token that, when the expiration cannot be parsed,
\* keeps the token it has stored and gives it a default lifetime.
_refresh_token_default(c) ==
    LET sent(r) == [c EXCEPT
                      !.calls = Append(@, Call("POST", "login", NoBearer, NoPayload)),
                      !.answers = Append(@, r)]
        failed(r, msg) == [ctx |-> sent(r), raised |-> TRUE, exc |-> PyException(msg)]
        outcome(r) ==
            IF r.kind = "transport"
            THEN failed(r, "Failed to get authentication token: " \o ConnectionError.msg)
            ELSE IF RaisesForStatus(r.code)
            THEN failed(r, IF r.code = 401 THEN "Invalid AppEEARS credentials"
                           ELSE "Failed to get authentication token: "
                                \o HTTPError(r.code).msg)
            ELSE IF r.body.json = "login"
            THEN [ctx |-> [sent(r) EXCEPT
                             !.token = r.body.token,
                             !.token_expiry =
                                 Some(fromisoformat(r.body.expiration) - Buffer),
                             !.granted = r.body.expiration.instant],
                  raised |-> FALSE, exc |-> NoExc]
            ELSE IF r.body.json = "login_bad_expiration"
            THEN [ctx |-> [sent(r) EXCEPT !.token = r.body.token,
                                          !.token_expiry = Some(now + Buffer)],
                  raised |-> TRUE,
                  exc |-> PyException("Failed to get authentication token: "
                                      \o "Invalid isoformat string")]
            ELSE failed(r, "Failed to get authentication token: " \o JSONDecodeError.msg)
    IN  {Logged(outcome(r)) : r \in LoginReplies(now)}

\* A variant of _refresh_token without the branch for 401.
_refresh_token_generic(c) ==
    LET sent(r) == [c EXCEPT
                      !.calls = Append(@, Call("POST", "login", NoBearer, NoPayload)),
                      !.answers = Append(@, r)]
        failed(cx, msg) ==
            [ctx |-> cx, raised |-> TRUE,
             exc |-> PyException("Failed to get authentication token: " \o msg)]
        outcome(r) ==
            IF r.kind = "transport"
            THEN failed(sent(r), ConnectionError.msg)
            ELSE IF RaisesForStatus(r.code)
            THEN failed(sent(r), HTTPError(r.code).msg)
            ELSE IF r.body.json = "login"
            THEN [ctx |-> [sent(r) EXCEPT
                             !.token = r.body.token,
                             !.token_expiry =
                                 Some(fromisoformat(r.body.expiration) - Buffer),
                             !.granted = r.body.expiration.instant],
                  raised |-> FALSE, exc |-> NoExc]
            ELSE IF r.body.json = "login_bad_expiration"
            THEN failed([sent(r) EXCEPT !.token = r.body.token],
                        "Invalid isoformat string")
            ELSE failed(sent(r), JSONDecodeError.msg)
    IN  {Logged(outcome(r)) : r \in LoginReplies(now)}

\* _refresh_token: one outcome per answer of POST /login.
_refresh_token(c) ==
    LET sent(r) == [c EXCEPT
                      !.calls = Append(@, Call("POST", "login", NoBearer, NoPayload)),
                      !.answers = Append(@, r)]
        outcome(r) ==
            IF r.kind = "transport"
            THEN [ctx |-> sent(r), raised |-> TRUE,
                  exc |-> PyException("Failed to get authentication token: "
                                      \o ConnectionError.msg)]
            ELSE IF RaisesForStatus(r.code)
            THEN [ctx |-> sent(r), raised |-> TRUE,
                  exc |-> IF r.code = 401
                          THEN PyException("Invalid AppEEARS credentials")
                          ELSE PyException("Failed to get authentication token: "
                                           \o HTTPError(r.code).msg)]
            ELSE IF r.body.json = "login"
            THEN [ctx |-> [sent(r) EXCEPT
                             !.token = r.body.token,
                             !.token_expiry =
                                 Some(fromisoformat(r.body.expiration) - Buffer),
                             !.granted = r.body.expiration.instant],
                  raised |-> FALSE, exc |-> NoExc]
            ELSE IF r.body.json = "login_bad_expiration"
            THEN \* line 34 has stored the token when line 36 raises
                 [ctx |-> [sent(r) EXCEPT !.token = r.body.token],
                  raised |-> TRUE,
                  exc |-> PyException("Failed to get authentication token: "
                                      \o "Invalid isoformat string")]
            ELSE [ctx |-> sent(r), raised |-> TRUE,
                  exc |-> PyException("Failed to get authentication token: "
                                      \o JSONDecodeError.msg)]
    IN  {Logged(outcome(r)) : r \in LoginReplies(now)}

\* A variant of the condition that renews one minute late (`>` for `>=`).
NeedsRefresh_late(c) ==
    \/ c.token = ""
    \/ c.token_expiry = None
    \/ (c.token_expiry # None /\ now > c.token_expiry[1])

\* The condition of _ensure_valid_token.
NeedsRefresh(c) ==
    \/ c.token = ""
    \/ c.token_expiry = None
    \/ (c.token_expiry # None /\ now >= c.token_expiry[1])

_ensure_valid_token(c) ==
    IF NeedsRefresh(c)
    THEN _refresh_token(c)
    ELSE {[ctx |-> c, raised |-> FALSE, exc |-> NoExc]}

\* A variant of _make_request that builds the Authorization header before
\* it ensures the lease.
_make_request_stale(c, method, endpoint, payload, replies) ==
    UNION {
        IF v.raised
        THEN {[ctx |-> v.ctx, raised |-> TRUE, exc |-> v.exc,
               response |-> Transport]}
        ELSE LET sent(r) == [v.ctx EXCEPT
                               !.calls = Append(@, Call(method, endpoint,
                                                        "Bearer " \o c.token,
                                                        payload)),
                               !.answers = Append(@, r)]
             IN  {Logged(
                    IF r.kind = "transport"
                    THEN [ctx |-> sent(r), raised |-> TRUE, exc |-> ConnectionError,
                          response |-> r]
                    ELSE IF RaisesForStatus(r.code)
                    THEN [ctx |-> sent(r), raised |-> TRUE, exc |-> HTTPError(r.code),
                          response |-> r]
                    ELSE [ctx |-> sent(r), raised |-> FALSE, exc |-> NoExc,
                          response |-> r])
                  : r \in replies}
        : v \in _ensure_valid_token(c)}

\* _make_request: ensure the lease, then send the request with the bearer
\* token; `replies` are the answers the remote API can give to this request.
_make_request(c, method, endpoint, payload, replies) ==
    UNION {
        IF v.raised
        THEN {[ctx |-> v.ctx, raised |-> TRUE, exc |-> v.exc,
               response |-> Transport]}
        ELSE LET sent(r) == [v.ctx EXCEPT
                               !.calls = Append(@, Call(method, endpoint,
                                                        "Bearer " \o v.ctx.token,
                                                        payload)),
                               !.answers = Append(@, r)]
             IN  {Logged(
                    IF r.kind = "transport"
                    THEN [ctx |-> sent(r), raised |-> TRUE, exc |-> ConnectionError,
                          response |-> r]
                    ELSE IF RaisesForStatus(r.code)
                    THEN [ctx |-> sent(r), raised |-> TRUE, exc |-> HTTPError(r.code),
                          response |-> r]
                    ELSE [ctx |-> sent(r), raised |-> FALSE, exc |-> NoExc,
                          response |-> r])
                  : r \in replies}
        : v \in _ensure_valid_token(c)}

\* response.json(): raises unless the body is JSON.
HasJson(r) == r.body.json \notin {"none", "invalid"}

\* What the remote API can answer to a request whose 2xx answers carry one
\* of `bodies`.
Replies(bodies) ==
    {Response(c, b) : c \in SuccessCodes, b \in bodies \cup {[json |-> "invalid"]}}
    \cup {Response(c, NoBody) : c \in OtherCodes \cup ErrorCodes}
    \cup {Transport}

----------------------------------------------------------------------------
(* Status strings *)

RECURSIVE Str(_)
\* The characters of s as one string (for messages).
Str(s) == IF s = << >> THEN "" ELSE s[1] \o Str(Tail(s))

S_pending == <<"p","e","n","d","i","n","g">>
S_running == <<"r","u","n","n","i","n","g">>
S_done == <<"d","o","n","e">>
S_failed == <<"f","a","i","l","e","d">>
S_cancelled == <<"c","a","n","c","e","l","l","e","d">>
S_unknown == <<"u","n","k","n","o","w","n">>
S_queued == <<"q","u","e","u","e","d">>
S_Done == <<"D","o","n","e">>
S_RUNNING == <<"R","U","N","N","I","N","G">>

\* Every spelling of w in upper and lower case letters.
CaseVariants(w) ==
    {[i \in 1..Len(w) |-> IF i \in U THEN UpperChar(w[i]) ELSE w[i]] :
        U \in SUBSET (1..Len(w))}

\* The status fields the remote API reports in the job scenarios, and in the
\* scenario that exercises the normalization.
ApiStatuses ==
    {S_pending, S_running, S_RUNNING, S_done, S_Done, S_failed, S_cancelled,
     S_queued, Missing, NullValue}

AllApiStatuses ==
    UNION {CaseVariants(w) :
             w \in {S_pending, S_running, S_done, S_failed, S_cancelled}}
    \cup {S_queued, S_unknown, << >>, <<"e","r","r","o","r">>,
          <<"c","o","m","p","l","e","t","e","d">>, Missing, NullValue}

\* status_mapping of check_job_status (and its copies).
status_mapping ==
    (S_pending :> "pending") @@ (S_running :> "running") @@
    (S_done :> "completed") @@ (S_failed :> "failed") @@
    (S_cancelled :> "cancelled")

\* dict.get(key, default)
Get(d, key, default) == IF d[key] = Missing THEN default ELSE d[key]

\* A variant of the normalization that looks the status up as it is spelt.
NormalizeStatus_exact(api_status) ==
    IF api_status \in DOMAIN status_mapping
    THEN status_mapping[api_status]
    ELSE "pending"

\* status_mapping.get(api_status.lower(), "pending")
NormalizeStatus(api_status) ==
    IF lower(api_status) \in DOMAIN status_mapping
    THEN status_mapping[lower(api_status)]
    ELSE "pending"

JobStatuses == {"pending", "running", "completed", "failed", "cancelled", "unknown"}

----------------------------------------------------------------------------
(* Task status *)

\* The "created" field of a job: absent, null, a string that is no ISO-8601
\* timestamp, or the timestamp <<"iso", wall-clock minute, UTC offset>>.
CreatedBad == <<"<not a timestamp>">>
CreatedAt(t) == {<<"iso", t + off, off>> : off \in Offsets}
CreatedUtc(t) == <<"iso", t, 0>>
Createds == {Missing, NullValue, CreatedBad} \cup CreatedAt(0)

TaskReplies == Replies({[json |-> "task", status |-> task, created |-> created]})

\* Lines 110-120 of check_job_status: the seconds since `created`, or None
\* when the key is absent or the bare `except` has swallowed what
\* created.replace or fromisoformat raised.
ElapsedTime(task_status) ==
    IF task_status.created \in {Missing, NullValue, CreatedBad}
    THEN None
    ELSE Some(60 * (now - fromisoformat([wall |-> task_status.created[2],
                                         offset |-> task_status.created[3]])))

\* A variant of _get_task_status that answers from a status it has kept,
\* without a request.
_get_task_status_kept(c, task_id) ==
    {[ctx |-> c,
      ret |-> [status |-> "success",
               task_status |-> [json |-> "task", status |-> S_pending,
                               created |-> Missing]]]}

\* AppEEARSTools._get_task_status
_get_task_status(c, task_id) ==
    {IF o.raised
     THEN [ctx |-> o.ctx, ret |-> [status |-> "error", message |-> o.exc.msg]]
     ELSE IF ~HasJson(o.response)
     THEN [ctx |-> o.ctx,
           ret |-> [status |-> "error", message |-> JSONDecodeError.msg]]
     ELSE [ctx |-> o.ctx,
           ret |-> [status |-> "success", task_status |-> o.response.body]]
     : o \in _make_request(c, "GET", "task/" \o task_id, NoPayload, TaskReplies)}

\* A variant of check_job_status without its outer `except Exception`: the
\* AttributeError of None.lower() leaves the function.
check_job_status_uncaught(c, job_id) ==
    {IF g.ret.status = "success"
     THEN LET api_status == Get(g.ret.task_status, "status", S_unknown)
          IN  IF ~IsStr(api_status)
              THEN [ctx |-> g.ctx,
                    ret |-> [status |-> "raised",
                             message |-> "'NoneType' object has no attribute 'lower'"]]
              ELSE [ctx |-> g.ctx,
                    ret |-> [status |-> "success", job_id |-> job_id,
                             job_status |-> NormalizeStatus(api_status),
                             api_status |-> api_status,
                             elapsed_time |-> ElapsedTime(g.ret.task_status)]]
     ELSE [ctx |-> g.ctx,
           ret |-> [status |-> "error",
                    message |-> "Failed to check job status: " \o g.ret.message,
                    job_id |-> job_id]]
     : g \in _get_task_status(c, job_id)}

\* A variant of check_job_status without the `except` around the parsing of
\* `created`: what the parsing raises reaches the outer handler.
check_job_status_strict(c, job_id) ==
    {IF g.ret.status = "success"
     THEN LET api_status == Get(g.ret.task_status, "status", S_unknown)
          IN  IF ~IsStr(api_status)
              THEN [ctx |-> g.ctx,
                    ret |-> [status |-> "error",
                             message |-> "Error checking job status: "
                                 \o "'NoneType' object has no attribute 'lower'"]]
              ELSE IF g.ret.task_status.created \in {NullValue, CreatedBad}
              THEN [ctx |-> g.ctx,
                    ret |-> [status |-> "error",
                             message |-> "Error checking job status: "
                                 \o "Invalid isoformat string"]]
              ELSE [ctx |-> g.ctx,
                    ret |-> [status |-> "success", job_id |-> job_id,
                             job_status |-> NormalizeStatus(api_status),
                             api_status |-> api_status,
                             elapsed_time |-> ElapsedTime(g.ret.task_status)]]
     ELSE [ctx |-> g.ctx,
           ret |-> [status |-> "error",
                    message |-> "Failed to check job status: " \o g.ret.message,
                    job_id |-> job_id]]
     : g \in _get_task_status(c, job_id)}

\* check_job_status
check_job_status(c, job_id) ==
    {IF g.ret.status = "success"
     THEN LET api_status == Get(g.ret.task_status, "status", S_unknown)
          IN  IF ~IsStr(api_status)
              THEN \* None.lower() raises; the outer except returns
                   [ctx |-> g.ctx,
                    ret |-> [status |-> "error",
                             message |-> "Error checking job status: "
                                 \o "'NoneType' object has no attribute 'lower'"]]
              ELSE [ctx |-> g.ctx,
                    ret |-> [status |-> "success", job_id |-> job_id,
                             job_status |-> NormalizeStatus(api_status),
                             api_status |-> api_status,
                             elapsed_time |-> ElapsedTime(g.ret.task_status)]]
     ELSE [ctx |-> g.ctx,
           ret |-> [status |-> "error",
                    message |-> "Failed to check job status: " \o g.ret.message,
                    job_id |-> job_id]]
     : g \in _get_task_status(c, job_id)}

-----------------------------------------------------------------------
(* Bundles *)

\* Strings that are only compared or joined are TLA+ strings; a missing or
\* null string field is one of these.
NoneS == "<None>"

FileId(i) == "f" \o ToString(i)
FileName(i) == "data_" \o ToString(i) \o ".csv"

\* The bytes the remote API holds for a file: file i has i bytes.
FileSize(file_id) == CHOOSE i \in 1..MaxFiles : FileId(i) = file_id

\* The i-th entry of a bundle listing, in each form the remote API may give it.
NamedEntry(i) == [type |-> "dict", file_id |-> FileId(i), file_name |-> FileName(i)]
OddEntries(i) ==
    {[type |-> "dict", file_id |-> FileId(i), file_name |-> NoneS],
     [type |-> "str", file_id |-> FileId(i), file_name |-> NoneS],
     [type |-> "dict", file_id |-> NoneS, file_name |-> FileName(i)],
     [type |-> "dict", file_id |-> "", file_name |-> FileName(i)],
     [type |-> "str", file_id |-> "", file_name |-> NoneS],
     [type |-> "other", file_id |-> NoneS, file_name |-> NoneS]}

\* The file lists of the bundles: up to MaxFiles entries, at most one of them
\* not a dict with both file_id and file_name.
NamedList(n) == [i \in 1..n |-> NamedEntry(i)]
NamedLists == {NamedList(n) : n \in 0..MaxFiles}
OddLists ==
    UNION {UNION {{[NamedList(n) EXCEPT ![k] = e] : e \in OddEntries(k)} :
                    k \in 1..n} : n \in 1..MaxFiles}

\* JSON values of a bundle listing: a list, an object, null.
JList(items) == [json |-> "list", items |-> items]
JDict(keys, files, data, foo) ==
    [json |-> "dict", keys |-> keys, files |-> files, data |-> data, foo |-> foo]
JNull == [json |-> "null"]

\* The shapes in which the remote API may wrap a file list.
Wrapped(L) ==
    {JDict({"files"}, L, << >>, << >>),
     JDict({"data"}, << >>, L, << >>),
     JDict({"foo"}, << >>, << >>, L),
     JDict({"files", "data"}, L, << >>, << >>),
     JDict({"data", "foo"}, << >>, L, L)}

Bundles ==
    {JList(L) : L \in NamedLists \cup OddLists}
    \cup UNION {Wrapped(L) : L \in NamedLists}
    \cup {JNull}

\* The bundles of the scenarios that are not about the download loop.
FewBundles ==
    {JList(NamedList(0)), JList(NamedList(1)),
     JDict({"files"}, NamedList(1), << >>, << >>),
     JDict({"foo"}, << >>, << >>, NamedList(1))}

BundleReplies == Replies({bundle})

\* len(x) of a JSON value; raises TypeError for null.
HasLen(v) == v.json \in {"list", "dict"}
PyLen(v) == IF v.json = "list" THEN Len(v.items) ELSE Cardinality(v.keys)

\* AppEEARSTools._list_bundle_files: the response's JSON is returned as it is.
_list_bundle_files(c, task_id) ==
    {IF o.raised
     THEN [ctx |-> o.ctx, ret |-> [status |-> "error", message |-> o.exc.msg]]
     ELSE IF ~HasJson(o.response)
     THEN [ctx |-> o.ctx,
           ret |-> [status |-> "error", message |-> JSONDecodeError.msg]]
     ELSE [ctx |-> o.ctx,
           ret |-> [status |-> "success", files |-> o.response.body]]
     : o \in _make_request(c, "GET", "bundle/" \o task_id, NoPayload, BundleReplies)}

\* A variant of list_bundle_files that lists whatever the job's status is.
list_bundle_files_unchecked(c, job_id) ==
    UNION {
        {IF b.ret.status = "success" /\ HasLen(b.ret.files)
         THEN [ctx |-> b.ctx,
               ret |-> [status |-> "success", job_id |-> job_id,
                        files |-> b.ret.files,
                        file_count |-> PyLen(b.ret.files)]]
         ELSE [ctx |-> b.ctx,
               ret |-> [status |-> "error",
                        message |-> "Failed to list bundle files"]]
         : b \in _list_bundle_files(s.ctx, job_id)}
        : s \in check_job_status(c, job_id)}

\* list_bundle_files
list_bundle_files(c, job_id) ==
    UNION {
        IF s.ret.status # "success"
        THEN {[ctx |-> s.ctx,
               ret |-> [status |-> "error",
                        message |-> "Could not check job status: " \o s.ret.message]]}
        ELSE IF s.ret.job_status # "completed"
        THEN {[ctx |-> s.ctx,
               ret |-> [status |-> "error",
                        message |-> "Job " \o job_id
                            \o " is not completed (current status: "
                            \o s.ret.job_status \o ")"]]}
        ELSE {IF b.ret.status = "success"
              THEN IF HasLen(b.ret.files)
                   THEN [ctx |-> b.ctx,
                         ret |-> [status |-> "success", job_id |-> job_id,
                                  files |-> b.ret.files,
                                  file_count |-> PyLen(b.ret.files)]]
                   ELSE [ctx |-> b.ctx,
                         ret |-> [status |-> "error",
                                  message |-> "Error listing bundle files: "
                                      \o "object of type 'NoneType' has no len()"]]
              ELSE [ctx |-> b.ctx,
                    ret |-> [status |-> "error",
                             message |-> "Failed to list bundle files: "
                                 \o b.ret.message]]
              : b \in _list_bundle_files(s.ctx, job_id)}
        : s \in check_job_status(c, job_id)}

----------------------------------------------------------------------------
(* Download *)

\* Paths are sequences of components.
DownloadPath == <<"tmp">>          \* os.getenv("DOWNLOAD_PATH", "/tmp")
NoPath == <<"<None>">>             \* output_path=None
OutputPaths == {NoPath, <<"data">>, <<"out", "run1">>}
ExistingRoots == {<<"tmp">>, <<"data">>}

dirname(path) == SubSeq(path, 1, Len(path) - 1)
join(path, name) == Append(path, name)
Prefixes(path) == {SubSeq(path, 1, n) : n \in 1..Len(path)}

\* GET bundle/<task_id>/<file_id>: the whole file streams, or the stream
\* breaks before the last byte, or there is no file to stream.
FileReplies(file_id) ==
    {Response(200, [json |-> "stream", bytes |-> FileSize(file_id),
                    complete |-> TRUE]),
     Response(200, [json |-> "stream", bytes |-> FileSize(file_id) - 1,
                    complete |-> FALSE]),
     Response(500, NoBody),
     Transport}

NoFs == [mkdir |-> {}, written |-> << >>]

\* A variant of the unwrapping that takes the list under any key of an object.
Unwrap_anykey(bundle_files) ==
    IF bundle_files.json = "list"
    THEN [ok |-> TRUE, files |-> bundle_files.items, message |-> ""]
    ELSE IF bundle_files.json = "dict"
    THEN IF "files" \in bundle_files.keys
         THEN [ok |-> TRUE, files |-> bundle_files.files, message |-> ""]
         ELSE IF "data" \in bundle_files.keys
         THEN [ok |-> TRUE, files |-> bundle_files.data, message |-> ""]
         ELSE [ok |-> TRUE, files |-> bundle_files.foo, message |-> ""]
    ELSE [ok |-> FALSE, files |-> << >>,
          message |-> "Unexpected bundle response type"]

RECURSIVE Reversed(_)
Reversed(s) == IF s = << >> THEN << >> ELSE Append(Reversed(Tail(s)), s[1])

\* A variant of the unwrapping that hands the files over last to first.
Unwrap_reversed(bundle_files) ==
    IF bundle_files.json = "list"
    THEN [ok |-> TRUE, files |-> Reversed(bundle_files.items), message |-> ""]
    ELSE IF bundle_files.json = "dict"
    THEN IF "files" \in bundle_files.keys
         THEN [ok |-> TRUE, files |-> Reversed(bundle_files.files), message |-> ""]
         ELSE IF "data" \in bundle_files.keys
         THEN [ok |-> TRUE, files |-> Reversed(bundle_files.data), message |-> ""]
         ELSE [ok |-> FALSE, files |-> << >>,
               message |-> "Unexpected bundle response format"]
    ELSE [ok |-> FALSE, files |-> << >>,
          message |-> "Unexpected bundle response type"]

\* The unwrapping of lines 249-273: the list, or the error returned.
Unwrap(bundle_files) ==
    IF bundle_files.json = "list"
    THEN [ok |-> TRUE, files |-> bundle_files.items, message |-> ""]
    ELSE IF bundle_files.json = "dict"
    THEN IF "files" \in bundle_files.keys
         THEN [ok |-> TRUE, files |-> bundle_files.files, message |-> ""]
         ELSE IF "data" \in bundle_files.keys
         THEN [ok |-> TRUE, files |-> bundle_files.data, message |-> ""]
         ELSE [ok |-> FALSE, files |-> << >>,
               message |-> "Unexpected bundle response format"]
    ELSE [ok |-> FALSE, files |-> << >>,
          message |-> "Unexpected bundle response type"]

\* Lines 302-319: the file id and name of an entry; skip is the `continue`.
EntryOf(file_info) ==
    IF file_info.type = "dict"
    THEN [skip |-> file_info.file_id \in {NoneS, ""},
          file_id |-> file_info.file_id,
          file_name |-> IF file_info.file_name = NoneS
                        THEN "unknown_file_" \o file_info.file_id
                        ELSE file_info.file_name]
    ELSE IF file_info.type = "str"
    THEN [skip |-> file_info.file_id = "",
          file_id |-> file_info.file_id,
          file_name |-> "file_" \o file_info.file_id]
    ELSE [skip |-> TRUE, file_id |-> NoneS, file_name |-> NoneS]

RECURSIVE DownloadLoop_abort(_, _, _, _, _, _, _)
\* A variant of the loop that stops at the first file that fails.
DownloadLoop_abort(c, task_id, task_folder, bundle_files, i, downloaded_files, written) ==
    IF i > Len(bundle_files)
    THEN {[ctx |-> c, downloaded_files |-> downloaded_files, written |-> written]}
    ELSE LET e == EntryOf(bundle_files[i])
             file_path == join(task_folder, e.file_name)
         IN  IF e.skip
             THEN DownloadLoop_abort(c, task_id, task_folder, bundle_files, i + 1,
                                     downloaded_files, written)
             ELSE UNION {
                 IF o.raised \/ ~o.response.body.complete
                 THEN {[ctx |-> o.ctx, downloaded_files |-> downloaded_files,
                        written |-> written]}
                 ELSE DownloadLoop_abort(o.ctx, task_id, task_folder, bundle_files,
                          i + 1,
                          Append(downloaded_files,
                                 [file_name |-> e.file_name,
                                  file_path |-> file_path,
                                  file_id |-> e.file_id,
                                  file_size |-> o.response.body.bytes]),
                          Append(written, [file_path |-> file_path,
                                           bytes |-> o.response.body.bytes,
                                           complete |-> TRUE]))
                 : o \in _make_request(c, "GET",
                                       "bundle/" \o task_id \o "/" \o e.file_id,
                                       NoPayload, FileReplies(e.file_id))}

RECURSIVE DownloadLoop_break(_, _, _, _, _, _, _)
\* A variant of the loop that ends at the first entry without a file id.
DownloadLoop_break(c, task_id, task_folder, bundle_files, i, downloaded_files, written) ==
    IF i > Len(bundle_files)
    THEN {[ctx |-> c, downloaded_files |-> downloaded_files, written |-> written]}
    ELSE LET e == EntryOf(bundle_files[i])
             file_path == join(task_folder, e.file_name)
         IN  IF e.skip
             THEN {[ctx |-> c, downloaded_files |-> downloaded_files,
                    written |-> written]}
             ELSE UNION {
                 IF o.raised
                 THEN DownloadLoop_break(o.ctx, task_id, task_folder, bundle_files,
                                         i + 1, downloaded_files, written)
                 ELSE IF ~o.response.body.complete
                 THEN DownloadLoop_break(o.ctx, task_id, task_folder, bundle_files,
                          i + 1, downloaded_files,
                          Append(written, [file_path |-> file_path,
                                           bytes |-> o.response.body.bytes,
                                           complete |-> FALSE]))
                 ELSE DownloadLoop_break(o.ctx, task_id, task_folder, bundle_files,
                          i + 1,
                          Append(downloaded_files,
                                 [file_name |-> e.file_name,
                                  file_path |-> file_path,
                                  file_id |-> e.file_id,
                                  file_size |-> o.response.body.bytes]),
                          Append(written, [file_path |-> file_path,
                                           bytes |-> o.response.body.bytes,
                                           complete |-> TRUE]))
                 : o \in _make_request(c, "GET",
                                       "bundle/" \o task_id \o "/" \o e.file_id,
                                       NoPayload, FileReplies(e.file_id))}

RECURSIVE DownloadLoop(_, _, _, _, _, _, _)
\* The loop of lines 297-358 from entry i on: every outcome of the remaining
\* file requests, with the files downloaded and the files written.
DownloadLoop(c, task_id, task_folder, bundle_files, i, downloaded_files, written) ==
    IF i > Len(bundle_files)
    THEN {[ctx |-> c, downloaded_files |-> downloaded_files, written |-> written]}
    ELSE LET e == EntryOf(bundle_files[i])
             file_path == join(task_folder, e.file_name)
         IN  IF e.skip
             THEN DownloadLoop(c, task_id, task_folder, bundle_files, i + 1,
                               downloaded_files, written)
             ELSE UNION {
                 IF o.raised
                 THEN DownloadLoop(o.ctx, task_id, task_folder, bundle_files,
                                   i + 1, downloaded_files, written)
                 ELSE IF ~o.response.body.complete
                 THEN \* iter_content raises after the first chunks are written
                      DownloadLoop(o.ctx, task_id, task_folder, bundle_files, i + 1,
                          downloaded_files,
                          Append(written, [file_path |-> file_path,
                                           bytes |-> o.response.body.bytes,
                                           complete |-> FALSE]))
                 ELSE DownloadLoop(o.ctx, task_id, task_folder, bundle_files, i + 1,
                          Append(downloaded_files,
                                 [file_name |-> e.file_name,
                                  file_path |-> file_path,
                                  file_id |-> e.file_id,
                                  file_size |-> o.response.body.bytes]),
                          Append(written, [file_path |-> file_path,
                                           bytes |-> o.response.body.bytes,
                                           complete |-> TRUE]))
                 : o \in _make_request(c, "GET",
                                       "bundle/" \o task_id \o "/" \o e.file_id,
                                       NoPayload, FileReplies(e.file_id))}

\* A variant of the sum that counts the files instead of their bytes.
SumSizes_count(fs) == Len(fs)

RECURSIVE SumSizes(_)
\* sum(f.get("file_size", 0) for f in downloaded_files)
SumSizes(fs) == IF fs = << >> THEN 0 ELSE fs[1].file_size + SumSizes(Tail(fs))

\* A variant of the result that reports success whatever was downloaded.
DownloadSummary_lenient(task_id, task_folder, downloaded_files) ==
    [status |-> "success", task_id |-> task_id,
     download_folder |-> task_folder,
     files |-> downloaded_files,
     file_count |-> Len(downloaded_files),
     total_size |-> SumSizes(downloaded_files)]

\* Lines 360-377: the result of the loop.
DownloadSummary(task_id, task_folder, downloaded_files) ==
    IF downloaded_files = << >>
    THEN [status |-> "error", message |-> "Failed to download any files"]
    ELSE [status |-> "success", task_id |-> task_id,
          download_folder |-> task_folder,
          files |-> downloaded_files,
          file_count |-> Len(downloaded_files),
          total_size |-> SumSizes(downloaded_files)]

DownloadError(c, msg) ==
    [ctx |-> c, fs |-> NoFs,
     ret |-> [status |-> "error", message |-> "Download error: " \o msg]]

\* AppEEARSTools._download_task
_download_task(c, task_id, output_path0) ==
    LET output_path == IF output_path0 = NoPath THEN DownloadPath ELSE output_path0
        task_folder == IF output_path \in folders
                       THEN join(output_path, "task_" \o task_id)
                       ELSE join(dirname(output_path), "task_" \o task_id)
        fs(written) == [mkdir |-> Prefixes(task_folder), written |-> written]
        AfterLoop(l) ==
            [ctx |-> l.ctx, fs |-> fs(l.written),
             ret |-> DownloadSummary(task_id, task_folder, l.downloaded_files)]
        AfterBundle(b) ==
            IF b.raised THEN {DownloadError(b.ctx, b.exc.msg)}
            ELSE IF ~HasJson(b.response)
            THEN {DownloadError(b.ctx, JSONDecodeError.msg)}
            ELSE LET u == Unwrap(b.response.body)
                 IN  IF ~u.ok
                     THEN {[ctx |-> b.ctx, fs |-> NoFs,
                            ret |-> [status |-> "error", message |-> u.message]]}
                     ELSE IF u.files = << >>
                     THEN {[ctx |-> b.ctx, fs |-> NoFs,
                            ret |-> [status |-> "error",
                                     message |-> "No files found in bundle"]]}
                     ELSE {AfterLoop(l) :
                             l \in DownloadLoop(b.ctx, task_id, task_folder,
                                                u.files, 1, << >>, << >>)}
        AfterStatus(st) ==
            IF st.raised THEN {DownloadError(st.ctx, st.exc.msg)}
            ELSE IF ~HasJson(st.response)
            THEN {DownloadError(st.ctx, JSONDecodeError.msg)}
            ELSE IF st.response.body.status # S_done
            THEN {[ctx |-> st.ctx, fs |-> NoFs,
                   ret |-> [status |-> "error",
                            message |-> "Task is not complete. Current status: "
                                \o Str(st.response.body.status)]]}
            ELSE UNION {AfterBundle(b) :
                          b \in _make_request(st.ctx, "GET", "bundle/" \o task_id,
                                              NoPayload, BundleReplies)}
    IN  UNION {AfterStatus(st) :
                 st \in _make_request(c, "GET", "task/" \o task_id, NoPayload,
                                      TaskReplies)}

\* download_job_results
download_job_results(c, job_id, output_path) ==
    UNION {
        IF s.ret.status # "success"
        THEN {[ctx |-> s.ctx, fs |-> NoFs,
               ret |-> [status |-> "error",
                        message |-> "Could not check job status: " \o s.ret.message]]}
        ELSE IF s.ret.job_status # "completed"
        THEN {[ctx |-> s.ctx, fs |-> NoFs,
               ret |-> [status |-> "error",
                        message |-> "Job " \o job_id
                            \o " is not completed (current status: "
                            \o s.ret.job_status \o ")"]]}
        ELSE {IF d.ret.status = "success"
              THEN [ctx |-> d.ctx, fs |-> d.fs,
                    ret |-> [status |-> "success", job_id |-> job_id,
                             download_folder |-> d.ret.download_folder,
                             file_count |-> d.ret.file_count,
                             total_size |-> d.ret.total_size,
                             files |-> d.ret.files]]
              ELSE [ctx |-> d.ctx, fs |-> d.fs,
                    ret |-> [status |-> "error",
                             message |-> "Failed to download results: "
                                 \o d.ret.message]]
              : d \in _download_task(s.ctx, job_id, output_path)}
        : s \in check_job_status(c, job_id)}

----------------------------------------------------------------------------
(* Cancel *)

\* DELETE task/<id>: the body of the answer is not read.
DeleteReplies ==
    {Response(code, NoBody) : code \in SuccessCodes \cup OtherCodes \cup ErrorCodes}
    \cup {Transport}

CancelUnsupported == "Job cancellation is not supported by the AppEEARS API"

\* A variant of cancel_appears_job that sends the DELETE whatever the status.
cancel_appears_job_unchecked(c, job_id) ==
    UNION {
        {[ctx |-> o.ctx,
          ret |-> [status |-> IF o.raised THEN "error" ELSE "success",
                   job_id |-> job_id,
                   message |-> IF o.raised THEN "Failed to cancel job: " \o o.exc.msg
                               ELSE "Job " \o job_id \o " cancelled successfully"]]
         : o \in _make_request(s.ctx, "DELETE", "task/" \o job_id, NoPayload,
                               DeleteReplies)}
        : s \in check_job_status(c, job_id)}

\* cancel_appears_job
cancel_appears_job(c, job_id) ==
    UNION {
        IF s.ret.status # "success"
        THEN {[ctx |-> s.ctx,
               ret |-> [status |-> "error",
                        message |-> "Could not check job status: " \o s.ret.message]]}
        ELSE IF s.ret.job_status \in {"completed", "failed", "cancelled"}
        THEN {[ctx |-> s.ctx,
               ret |-> [status |-> "error",
                        message |-> "Cannot cancel job " \o job_id
                            \o " - it is already " \o s.ret.job_status]]}
        ELSE {IF ~o.raised
              THEN [ctx |-> o.ctx,
                    ret |-> [status |-> "success", job_id |-> job_id,
                             message |-> "Job " \o job_id \o " cancelled successfully",
                             job_status |-> "cancelled"]]
              ELSE IF o.exc.type = "HTTPError"
              THEN IF o.exc.code = 405
                   THEN [ctx |-> o.ctx,
                         ret |-> [status |-> "error", message |-> CancelUnsupported,
                                  job_id |-> job_id]]
                   ELSE [ctx |-> o.ctx,
                         ret |-> [status |-> "error",
                                  message |-> "Failed to cancel job: " \o o.exc.msg,
                                  job_id |-> job_id]]
              ELSE [ctx |-> o.ctx,
                    ret |-> [status |-> "error",
                             message |-> "Error cancelling job: " \o o.exc.msg]]
              : o \in _make_request(s.ctx, "DELETE", "task/" \o job_id, NoPayload,
                                    DeleteReplies)}
        : s \in check_job_status(c, job_id)}

----------------------------------------------------------------------------
(* Submit *)

DigitChars == <<"0","1","2","3","4","5","6","7","8","9">>
IsDigit(ch) == \E i \in 1..Len(DigitChars) : DigitChars[i] = ch
DigitVal(ch) == (CHOOSE i \in 1..Len(DigitChars) : DigitChars[i] = ch) - 1
AllDigits(s) == \A i \in 1..Len(s) : IsDigit(s[i])

RECURSIVE ToInt(_)
ToInt(s) == IF s = << >> THEN 0
            ELSE 10 * ToInt(SubSeq(s, 1, Len(s) - 1)) + DigitVal(s[Len(s)])

IsLeap(y) == (y % 4 = 0 /\ y % 100 # 0) \/ y % 400 = 0
DaysInMonth(y, m) ==
    IF m = 2 THEN (IF IsLeap(y) THEN 29 ELSE 28)
    ELSE IF m \in {4, 6, 9, 11} THEN 30 ELSE 31

\* The forms strptime accepts for %m and %d: one or two digits
\* ("1[0-2]|0[1-9]|[1-9]" and "3[01]|[12]\d|0[1-9]|[1-9]| [1-9]").
MonthForm(s) ==
    /\ Len(s) \in {1, 2}
    /\ AllDigits(s)
    /\ ToInt(s) \in 1..12
DayForm(s) ==
    \/ /\ Len(s) \in {1, 2}
       /\ AllDigits(s)
       /\ ToInt(s) \in 1..31
    \/ /\ Len(s) = 2
       /\ s[1] = " "
       /\ IsDigit(s[2])
       /\ DigitVal(s[2]) # 0

\* datetime.strptime(s, "%Y-%m-%d"): the date, or the ValueError raised.
strptime(s) ==
    LET dashes == {i \in 1..Len(s) : s[i] = "-"}
        bad(msg) == [ok |-> FALSE, year |-> 0, month |-> 0, day |-> 0, msg |-> msg]
    IN  IF Cardinality(dashes) # 2
        THEN bad("time data does not match format '%Y-%m-%d'")
        ELSE LET d1 == CHOOSE i \in dashes : \A j \in dashes : i <= j
                 d2 == CHOOSE i \in dashes : \A j \in dashes : j <= i
                 Y == SubSeq(s, 1, d1 - 1)
                 M == SubSeq(s, d1 + 1, d2 - 1)
                 D == SubSeq(s, d2 + 1, Len(s))
                 dayOf == IF AllDigits(D) THEN ToInt(D) ELSE DigitVal(D[2])
             IN  IF ~(Len(Y) = 4 /\ AllDigits(Y) /\ MonthForm(M) /\ DayForm(D))
                 THEN bad("time data does not match format '%Y-%m-%d'")
                 ELSE IF ToInt(Y) = 0
                 THEN bad("year 0 is out of range")
                 ELSE IF dayOf > DaysInMonth(ToInt(Y), ToInt(M))
                 THEN bad("day is out of range for month")
                 ELSE [ok |-> TRUE, year |-> ToInt(Y), month |-> ToInt(M),
                       day |-> dayOf, msg |-> ""]

DigitChar(d) == DigitChars[d + 1]
Pad2(n) == <<DigitChar(n \div 10), DigitChar(n % 10)>>
\* %Y of a year from 1000 on
Pad4(n) == <<DigitChar(n \div 1000), DigitChar((n \div 100) % 10),
             DigitChar((n \div 10) % 10), DigitChar(n % 10)>>

\* A variant of the conversion that writes the day before the month.
strftime_dmy(d) == Pad2(d.day) \o <<"-">> \o Pad2(d.month) \o <<"-">> \o Pad4(d.year)

\* date.strftime("%m-%d-%Y")
strftime(d) == Pad2(d.month) \o <<"-">> \o Pad2(d.day) \o <<"-">> \o Pad4(d.year)

\* The dates the caller passes.
D_iso == <<"2","0","2","0","-","0","1","-","1","5">>
D_dmy == <<"1","5","-","0","1","-","2","0","2","0">>
D_short == <<"2","0","2","0","-","1","-","5">>
D_feb30 == <<"2","0","2","1","-","0","2","-","3","0">>
Dates == {D_iso, D_dmy, D_short, D_feb30}

DatesPayload(start_date, end_date) ==
    [dates |-> <<[startDate |-> start_date, endDate |-> end_date]>>]

\* POST task: the answer carries the task id, or not.
SubmitReplies ==
    Replies({[json |-> "task_id", task_id |-> JobId], [json |-> "no_task_id"]})

\* AppEEARSTools._submit_point_request
_submit_point_request(c, start_date0, end_date0) ==
    LET s == strptime(start_date0)
        e == strptime(end_date0)
    IN  IF ~s.ok
        THEN {[ctx |-> c, ret |-> [status |-> "error", message |-> s.msg]]}
        ELSE IF ~e.ok
        THEN {[ctx |-> c, ret |-> [status |-> "error", message |-> e.msg]]}
        ELSE {IF o.raised
              THEN [ctx |-> o.ctx,
                    ret |-> [status |-> "error", message |-> o.exc.msg]]
              ELSE IF ~HasJson(o.response)
              THEN [ctx |-> o.ctx,
                    ret |-> [status |-> "error", message |-> JSONDecodeError.msg]]
              ELSE IF o.response.body.json # "task_id"
              THEN [ctx |-> o.ctx,
                    ret |-> [status |-> "error", message |-> "'task_id'"]]
              ELSE [ctx |-> o.ctx,
                    ret |-> [status |-> "success",
                             task_id |-> o.response.body.task_id]]
              : o \in _make_request(c, "POST", "task",
                                    DatesPayload(strftime(s), strftime(e)),
                                    SubmitReplies)}

\* A variant of submit_appears_job that reports a failure without its cause.
submit_appears_job_opaque(c, start_date, end_date) ==
    {IF r.ret.status = "success"
     THEN [ctx |-> r.ctx,
           ret |-> [status |-> "success", job_id |-> r.ret.task_id,
                    start_date |-> start_date, end_date |-> end_date]]
     ELSE [ctx |-> r.ctx,
           ret |-> [status |-> "error",
                    message |-> "Failed to submit AppEEARS job"]]
     : r \in _submit_point_request(c, start_date, end_date)}

\* submit_appears_job
submit_appears_job(c, start_date, end_date) ==
    {IF r.ret.status = "success"
     THEN [ctx |-> r.ctx,
           ret |-> [status |-> "success", job_id |-> r.ret.task_id,
                    start_date |-> start_date, end_date |-> end_date]]
     ELSE [ctx |-> r.ctx,
           ret |-> [status |-> "error",
                    message |-> "Failed to submit AppEEARS job: " \o r.ret.message]]
     : r \in _submit_point_request(c, start_date, end_date)}

----------------------------------------------------------------------------
(* Job listing, details, progress *)

\* The copies of status_mapping in list_appears_jobs and get_job_details.
status_mapping_jobs ==
    (S_pending :> "pending") @@ (S_running :> "running") @@
    (S_done :> "completed") @@ (S_failed :> "failed") @@
    (S_cancelled :> "cancelled")

status_mapping_details ==
    (S_pending :> "pending") @@ (S_running :> "running") @@
    (S_done :> "completed") @@ (S_failed :> "failed") @@
    (S_cancelled :> "cancelled")

JobsStatus(api_status) ==
    IF lower(api_status) \in DOMAIN status_mapping_jobs
    THEN status_mapping_jobs[lower(api_status)]
    ELSE "pending"

\* A variant of the copy in get_job_details whose default is "unknown".
DetailsStatus_unknown(api_status) ==
    IF lower(api_status) \in DOMAIN status_mapping_details
    THEN status_mapping_details[lower(api_status)]
    ELSE "unknown"

DetailsStatus(api_status) ==
    IF lower(api_status) \in DOMAIN status_mapping_details
    THEN status_mapping_details[lower(api_status)]
    ELSE "pending"

\* limit and offset of list_appears_jobs: both absent, or both given.
JobWindows == {<<None, None>>, <<Some(1), Some(0)>>}

\* params: a key for each argument that is not None.
ParamsOf(limit, offset) ==
    [params |-> [keys |-> (IF limit # None THEN {"limit"} ELSE {})
                          \cup (IF offset # None THEN {"offset"} ELSE {}),
                 limit |-> limit, offset |-> offset]]

\* GET task: the list of the jobs, with the job or without it, or JSON that
\* is no list: null, or an object with a key.
JobsListings ==
    {[json |-> "jobs", jobs |-> <<[task_id |-> JobId, status |-> task]>>],
     [json |-> "jobs", jobs |-> << >>],
     [json |-> "null"],
     [json |-> "object"]}

JobsReplies == Replies(JobsListings)

AttributeErrorLower == "'NoneType' object has no attribute 'lower'"

\* list_appears_jobs
list_appears_jobs(c, limit, offset) ==
    LET error(cx, msg) ==
            [ctx |-> cx,
             ret |-> [status |-> "error", message |-> "Error listing jobs: " \o msg]]
        formatted(job) ==
            [job_id |-> job.task_id,
             status |-> JobsStatus(Get(job, "status", S_unknown)),
             api_status |-> Get(job, "status", S_unknown)]
    IN  {IF o.raised THEN error(o.ctx, o.exc.msg)
         ELSE IF ~HasJson(o.response) THEN error(o.ctx, JSONDecodeError.msg)
         ELSE IF o.response.body.json = "null"
         THEN error(o.ctx, "'NoneType' object is not iterable")
         ELSE IF o.response.body.json = "object"
         THEN error(o.ctx, "'str' object has no attribute 'get'")
         ELSE LET jobs == o.response.body.jobs
              IN  IF \E i \in DOMAIN jobs : jobs[i].status = NullValue
                  THEN error(o.ctx, AttributeErrorLower)
                  ELSE [ctx |-> o.ctx,
                        ret |-> [status |-> "success",
                                 jobs |-> [i \in DOMAIN jobs |-> formatted(jobs[i])],
                                 total_jobs |-> Len(jobs),
                                 limit |-> limit, offset |-> offset]]
         : o \in _make_request(c, "GET", "task", ParamsOf(limit, offset),
                               JobsReplies)}

\* get_job_details
get_job_details(c, job_id) ==
    {IF g.ret.status = "success"
     THEN LET api_status == Get(g.ret.task_status, "status", S_unknown)
          IN  IF ~IsStr(api_status)
              THEN [ctx |-> g.ctx,
                    ret |-> [status |-> "error",
                             message |-> "Error getting job details: "
                                 \o AttributeErrorLower]]
              ELSE [ctx |-> g.ctx,
                    ret |-> [status |-> "success", job_id |-> job_id,
                             job_status |-> DetailsStatus(api_status),
                             api_status |-> api_status]]
     ELSE [ctx |-> g.ctx,
           ret |-> [status |-> "error",
                    message |-> "Failed to get job details: " \o g.ret.message,
                    job_id |-> job_id]]
     : g \in _get_task_status(c, job_id)}

\* get_job_progress: the details' error as it is, or the progress.
get_job_progress(c, job_id) ==
    {IF d.ret.status # "success"
     THEN d
     ELSE [ctx |-> d.ctx,
           ret |-> [status |-> "success", job_id |-> job_id,
                    job_status |-> d.ret.job_status]]
     : d \in get_job_details(c, job_id)}

----------------------------------------------------------------------------
(* The tool calls *)

NoCall == [op |-> "none"]

\* What `renewal` becomes when a _refresh_token has raised, or has not.
Renewed(raised) ==
    IF raised THEN "failed"
    ELSE IF renewal = "failed" THEN "recovered"
    ELSE renewal

\* A call returns: the object keeps the context's lease, the directories made
\* exist, and the caller holds the record of the call.
Returns(op, arg, o, fs) ==
    /\ token' = o.ctx.token
    /\ token_expiry' = o.ctx.token_expiry
    /\ granted' = o.ctx.granted
    /\ folders' = folders \cup fs.mkdir
    /\ phase' = "returned"
    /\ last' = [op |-> op, arg |-> arg, calls |-> o.ctx.calls,
                answers |-> o.ctx.answers, errors |-> o.ctx.errors,
                result |-> o.ret, fs |-> fs]
    /\ renewal' =
           IF \E i \in DOMAIN o.ctx.calls : o.ctx.calls[i].endpoint = "login"
           THEN Renewed(o.ctx.errors[
                    CHOOSE i \in DOMAIN o.ctx.calls :
                        /\ o.ctx.calls[i].endpoint = "login"
                        /\ \A j \in DOMAIN o.ctx.calls :
                              o.ctx.calls[j].endpoint = "login" => j <= i] # "")
           ELSE renewal
    /\ UNCHANGED <<created, now, task, bundle, callers, server>>

Status ==
    /\ phase = "idle"
    /\ \E o \in check_job_status(Ctx, JobId) : Returns("status", JobId, o, NoFs)

ListFiles ==
    /\ phase = "idle"
    /\ \E o \in list_bundle_files(Ctx, JobId) : Returns("list_files", JobId, o, NoFs)

Download ==
    /\ phase = "idle"
    /\ \E output_path \in OutputPaths :
         \E o \in download_job_results(Ctx, JobId, output_path) :
            Returns("download", output_path, o, o.fs)

Cancel ==
    /\ phase = "idle"
    /\ \E o \in cancel_appears_job(Ctx, JobId) : Returns("cancel", JobId, o, NoFs)

Submit ==
    /\ phase = "idle"
    /\ \E start_date \in Dates, end_date \in Dates :
         \E o \in submit_appears_job(Ctx, start_date, end_date) :
            Returns("submit", <<start_date, end_date>>, o, NoFs)

ListJobs ==
    /\ phase = "idle"
    /\ \E w \in JobWindows :
         \E o \in list_appears_jobs(Ctx, w[1], w[2]) :
            Returns("list_jobs", w, o, NoFs)

Details ==
    /\ phase = "idle"
    /\ \E o \in get_job_details(Ctx, JobId) : Returns("details", JobId, o, NoFs)

Progress ==
    /\ phase = "idle"
    /\ \E o \in get_job_progress(Ctx, JobId) : Returns("progress", JobId, o, NoFs)

\* The AppEEARSTools object of server.py, as a context.
ServerCtx ==
    [token |-> server.token, token_expiry |-> server.token_expiry,
     granted |-> server.granted,
     calls |-> << >>, answers |-> << >>, errors |-> << >>]

\* The tool get_appears_task_status of server.py: _get_task_status on the
\* object of server.py.
ServerTaskStatus ==
    /\ phase = "idle"
    /\ \E o \in _get_task_status(ServerCtx, JobId) :
          /\ server' = [token |-> o.ctx.token, token_expiry |-> o.ctx.token_expiry,
                        granted |-> o.ctx.granted]
          /\ last' = [op |-> "server_task_status", arg |-> JobId,
                      calls |-> o.ctx.calls, answers |-> o.ctx.answers,
                      errors |-> o.ctx.errors, result |-> o.ret, fs |-> NoFs]
    /\ phase' = "returned"
    /\ UNCHANGED <<created, token, token_expiry, granted, now, task, bundle, folders,
                   callers, renewal>>

\* Two threads in _make_request at once.  A thread evaluates the condition of
\* _ensure_valid_token (Enter), posts the login (PostLogin) and, the answer
\* there, stores token and expiry or raises (LoginAnswered); with a valid
\* lease it goes on to its request at once.
Callers == {1, 2}

Enter(k) ==
    /\ phase = "idle"
    /\ callers[k] = "out"
    /\ callers' = [callers EXCEPT ![k] = IF NeedsRefresh(Ctx) THEN "refreshing"
                                         ELSE "out"]
    /\ UNCHANGED <<created, token, token_expiry, granted, now, task, bundle, folders, phase,
                   last, server, renewal>>

PostLogin(k) ==
    /\ callers[k] = "refreshing"
    /\ callers' = [callers EXCEPT ![k] = "login_in_flight"]
    /\ UNCHANGED <<created, token, token_expiry, granted, now, task, bundle, folders, phase,
                   last, server, renewal>>

LoginAnswered(k) ==
    /\ callers[k] = "login_in_flight"
    /\ \E o \in _refresh_token(Ctx) :
          /\ token' = o.ctx.token
          /\ token_expiry' = o.ctx.token_expiry
          /\ granted' = o.ctx.granted
          /\ renewal' = Renewed(o.raised)
    /\ callers' = [callers EXCEPT ![k] = "out"]
    /\ UNCHANGED <<created, now, task, bundle, folders, phase, last, server>>

Race == \E k \in Callers : Enter(k) \/ PostLogin(k) \/ LoginAnswered(k)

\* The caller takes the result; the next call starts with a fresh record.
Ack ==
    /\ phase = "returned"
    /\ phase' = "idle"
    /\ last' = NoCall
    /\ UNCHANGED <<created, token, token_expiry, granted, now, task, bundle, folders,
                   callers, server, renewal>>

\* A minute passes between two calls.
Tick ==
    /\ phase = "idle"
    /\ now < MaxTime
    /\ now' = now + 1
    /\ UNCHANGED <<created, token, token_expiry, granted, task, bundle, folders, phase, last,
                   callers, server, renewal>>

\* The remote system, the sole source of truth, changes the job's status.
RemoteUpdate ==
    /\ phase = "idle"
    /\ \E s \in ApiStatuses : s # task /\ task' = s
    /\ UNCHANGED <<created, token, token_expiry, granted, now, bundle, folders, phase, last,
                   callers, server, renewal>>

----------------------------------------------------------------------------
(* Specifications *)

\* After construction: __init__ has logged in (a failed login fails the import).
InitLease ==
    \E tk \in Tokens, e \in Expirations(0) :
        /\ token = tk
        /\ token_expiry = Some(fromisoformat(e) - Buffer)
        /\ granted = e.instant

\* No call is under way; server.py has constructed its own object, too.
InitIdle ==
    /\ folders = ExistingRoots
    /\ phase = "idle"
    /\ last = NoCall
    /\ callers = [k \in Callers |-> "out"]
    /\ server = [token |-> "tokB", token_expiry |-> Some(1), granted |-> 1 + Buffer]
    /\ renewal = "ok"
    /\ created = CreatedUtc(0)

\* The lease over time: calls to the gateway as minutes pass.
InitLeaseSpec ==
    /\ InitLease
    /\ now = 0
    /\ task \in {S_running, S_done}
    /\ bundle = JList(NamedList(1))
    /\ InitIdle

NextLease == Status \/ ListFiles \/ Download \/ Cancel \/ Submit \/ Ack \/ Tick

SpecLease == InitLeaseSpec /\ [][NextLease]_vars

\* The job operations within the minute of the construction, the lease valid.
Init ==
    /\ token = "tokA"
    /\ token_expiry = Some(1)
    /\ granted = 1 + Buffer
    /\ now = 0
    /\ task \in ApiStatuses
    /\ bundle \in FewBundles
    /\ InitIdle

Next ==
    \/ Status
    \/ ListFiles
    \/ Download
    \/ Cancel
    \/ Submit
    \/ Ack
    \/ RemoteUpdate

Spec == Init /\ [][Next]_vars

\* The download of a completed job, over the bundles the remote API may list.
InitDownload ==
    /\ token = "tokA"
    /\ token_expiry = Some(1)
    /\ granted = 1 + Buffer
    /\ now = 0
    /\ task = S_done
    /\ bundle \in Bundles
    /\ InitIdle

NextDownload == Download \/ ListFiles \/ Ack

SpecDownload == InitDownload /\ [][NextDownload]_vars

\* The status normalization, over the spellings of the remote statuses.
InitNorm ==
    /\ token = "tokA"
    /\ token_expiry = Some(1)
    /\ granted = 1 + Buffer
    /\ now = 0
    /\ task \in AllApiStatuses
    /\ bundle = JList(NamedList(1))
    /\ InitIdle

NextNorm == Status \/ Ack

SpecNorm == InitNorm /\ [][NextNorm]_vars

\* The three operations that normalize a status, over the spellings of the
\* remote statuses.
NextCopies == Status \/ ListJobs \/ Details \/ Ack

SpecCopies == InitNorm /\ [][NextCopies]_vars

\* Concurrent callers of the gateway as minutes pass.
NextRace == Race \/ Tick

SpecRace == InitLeaseSpec /\ [][NextRace]_vars

\* The job tools and the tools of server.py in one process, as minutes pass.
\* The two logins of the start have been given the same token and expiration.
InitServer ==
    /\ InitLease
    /\ now = 0
    /\ task = S_running
    /\ bundle = JList(NamedList(1))
    /\ folders = ExistingRoots
    /\ phase = "idle"
    /\ last = NoCall
    /\ callers = [k \in Callers |-> "out"]
    /\ renewal = "ok"
    /\ created = CreatedUtc(0)
    /\ server = [token |-> token, token_expiry |-> token_expiry, granted |-> granted]

NextServer == Status \/ ServerTaskStatus \/ Ack \/ Tick

SpecServer == InitServer /\ [][NextServer]_vars

\* The status of a job, whatever its "created" field, as minutes pass.
InitStatus ==
    /\ token = "tokA"
    /\ token_expiry = Some(2)
    /\ granted = 2 + Buffer
    /\ now = 0
    /\ task \in ApiStatuses
    /\ bundle = JList(NamedList(1))
    /\ created \in Createds
    /\ folders = ExistingRoots
    /\ phase = "idle"
    /\ last = NoCall
    /\ callers = [k \in Callers |-> "out"]
    /\ server = [token |-> "tokB", token_expiry |-> Some(1), granted |-> 1 + Buffer]
    /\ renewal = "ok"

NextStatus == Status \/ Ack \/ Tick

SpecStatus == InitStatus /\ [][NextStatus]_vars

\* Every tool-facing operation, the lease valid or due for renewal.
InitOps ==
    /\ token = "tokA"
    /\ token_expiry = Some(1)
    /\ granted = 1 + Buffer
    /\ now \in {0, 1}
    /\ task \in ApiStatuses
    /\ bundle \in FewBundles
    /\ InitIdle

NextOps ==
    \/ Status
    \/ ListFiles
    \/ Download
    \/ Cancel
    \/ Submit
    \/ ListJobs
    \/ Details
    \/ Progress
    \/ Ack

SpecOps == InitOps /\ [][NextOps]_vars

----------------------------------------------------------------------------
(* Properties.  A property reads the record of the call that has returned:  *)
(* last.calls[i] is the i-th request of the call and last.answers[i] the    *)
(* remote API's answer to it.                                               *)

Returned(op) == phase = "returned" /\ last.op = op

TaskEndpoint == "task/" \o JobId
BundleEndpoint == "bundle/" \o JobId

\* The i-th request was answered 200 with the job's JSON.
StatusAnswered(i) ==
    /\ Len(last.answers) >= i
    /\ last.answers[i].kind = "response"
    /\ last.answers[i].code = 200
    /\ last.answers[i].body.json = "task"

\* The i-th request was answered 200 with a bundle listing, a list or an object.
BundleAnswered(i) ==
    /\ Len(last.answers) >= i
    /\ last.answers[i].kind = "response"
    /\ last.answers[i].code = 200
    /\ last.answers[i].body.json \in {"list", "dict"}

Logins(calls) == {i \in DOMAIN calls : calls[i].endpoint = "login"}

----------------------------------------------------------------------------
\* C1: for a lease whose remote expiry is `granted`, a call that reaches the
\* gateway logs in if and only if no token is held, the expiry is unset, or
\* now >= granted - 5 minutes; the login then is the first request of the call
\* and the only one.  When now < granted - 5 minutes no login is made and
\* token and token_expiry are left unchanged.
C1_Due == token = "" \/ token_expiry = None \/ now >= granted - Buffer

C1_RenewalIffDue ==
    [][ (phase = "idle" /\ phase' = "returned" /\ last'.calls # << >>) =>
            /\ (last'.calls[1].endpoint = "login") <=> C1_Due
            /\ Logins(last'.calls) = IF C1_Due THEN {1} ELSE {}
            /\ ~C1_Due => (token' = token /\ token_expiry' = token_expiry) ]_vars

\* A renewal: minutes after the construction a status call logs in first,
\* stores the buffered expiry, and goes on to its own request.
C1_Witness ==
    /\ Returned("status")
    /\ now >= 1
    /\ Len(last.calls) = 2
    /\ last.calls[1].endpoint = "login"
    /\ last.calls[2].endpoint = TaskEndpoint
    /\ token_expiry = Some(granted - Buffer)
    /\ last.result.status = "success"

----------------------------------------------------------------------------
\* The mapping the status normalization is to compute, spelling by spelling.
C2_Expected(s) ==
    IF s \in CaseVariants(S_pending) THEN "pending"
    ELSE IF s \in CaseVariants(S_running) THEN "running"
    ELSE IF s \in CaseVariants(S_done) THEN "completed"
    ELSE IF s \in CaseVariants(S_failed) THEN "failed"
    ELSE IF s \in CaseVariants(S_cancelled) THEN "cancelled"
    ELSE "pending"

\* C2: the status normalization is total: whatever string the remote API
\* reports, the status call succeeds; pending/running/done/failed/cancelled
\* in any letter case give pending/running/completed/failed/cancelled, every
\* other string gives pending and never failed, and job_status is in the
\* closed status domain.
C2_NormalizationTotal ==
    (Returned("status") /\ StatusAnswered(1)
        /\ IsStr(last.answers[1].body.status)) =>
        /\ last.result.status = "success"
        /\ last.result.job_status = C2_Expected(last.answers[1].body.status)
        /\ last.result.job_status \in JobStatuses
        /\ last.result.job_status = "failed" =>
               last.answers[1].body.status \in CaseVariants(S_failed)

\* A mixed-case spelling of "done" is reported as completed.
C2_Witness ==
    /\ Returned("status")
    /\ StatusAnswered(1)
    /\ last.answers[1].body.status = <<"D","o","N","e">>
    /\ last.result.status = "success"
    /\ last.result.job_status = "completed"

----------------------------------------------------------------------------
\* The file list a bundle listing holds: the list itself, or the list under
\* "files", or the list under "data".
C3_HasListing(b) ==
    b.json = "list" \/ (b.json = "dict" /\ b.keys \cap {"files", "data"} # {})

C3_Listed(b) ==
    IF b.json = "list" THEN b.items
    ELSE IF "files" \in b.keys THEN b.files
    ELSE b.data

C4_Resolvable(e) ==
    \/ (e.type = "dict" /\ e.file_id \notin {NoneS, ""})
    \/ (e.type = "str" /\ e.file_id # "")

RECURSIVE C4_Ids(_)
\* The file ids of the entries of L that name a file, in bundle order.
C4_Ids(L) ==
    IF L = << >> THEN << >>
    ELSE (IF C4_Resolvable(L[1]) THEN <<L[1].file_id>> ELSE << >>)
         \o C4_Ids(Tail(L))

C4_Complete(a) ==
    a.kind = "response" /\ a.code = 200 /\ a.body.json = "stream" /\ a.body.complete

RECURSIVE C4_Succeeded(_, _, _)
\* The ids, from the k-th on, whose file request was answered with the
\* whole file.
C4_Succeeded(ids, answers, k) ==
    IF k > Len(ids) THEN << >>
    ELSE (IF C4_Complete(answers[k]) THEN <<ids[k]>> ELSE << >>)
         \o C4_Succeeded(ids, answers, k + 1)

\* The download has a non-empty listing to loop over (its third request is
\* the bundle listing, after the two status requests).
DownloadListed ==
    /\ Returned("download")
    /\ BundleAnswered(3)
    /\ C3_HasListing(last.answers[3].body)
    /\ C3_Listed(last.answers[3].body) # << >>

DownloadIds == C4_Ids(C3_Listed(last.answers[3].body))
DownloadAnswers == SubSeq(last.answers, 4, Len(last.answers))

\* C3: the bundle resolver returns the same file list whether the listing is
\* a bare list, an object with the list under "files", or an object with it
\* under "data", and fails for an object with neither key; in list_files as
\* well as in the listing step of download.
C3_BundleShapeTolerance ==
    /\ (Returned("list_files") /\ BundleAnswered(2)) =>
         LET b == last.answers[2].body
         IN  IF C3_HasListing(b)
             THEN C3_Listed(b) # << >> =>
                      /\ last.result.status = "success"
                      /\ last.result.files.json = "list"
                      /\ last.result.files.items = C3_Listed(b)
                      /\ last.result.file_count = Len(C3_Listed(b))
             ELSE last.result.status = "error"
    /\ (Returned("download") /\ BundleAnswered(3)) =>
         LET b == last.answers[3].body
         IN  IF C3_HasListing(b)
             THEN C3_Listed(b) # << >> =>
                      /\ Len(last.calls) = 3 + Len(DownloadIds)
                      /\ \A k \in 1..Len(DownloadIds) :
                            last.calls[3 + k].endpoint =
                                BundleEndpoint \o "/" \o DownloadIds[k]
             ELSE /\ last.result.status = "error"
                  /\ Len(last.calls) = 3

\* C4: a failure of one file's download never aborts the download: every
\* file of the bundle is requested, once and in bundle order, and the result
\* lists exactly the files whose request succeeded, in bundle order, with
\* file_count their number.
C4_PerFileFailureTolerated ==
    DownloadListed =>
        LET ok == C4_Succeeded(DownloadIds, DownloadAnswers, 1)
        IN  /\ Len(last.calls) = 3 + Len(DownloadIds)
            /\ \A k \in 1..Len(DownloadIds) :
                  /\ last.calls[3 + k].method = "GET"
                  /\ last.calls[3 + k].endpoint =
                         BundleEndpoint \o "/" \o DownloadIds[k]
            /\ ok # << >> =>
                  /\ last.result.status = "success"
                  /\ last.result.file_count = Len(ok)
                  /\ Len(last.result.files) = Len(ok)
                  /\ \A k \in 1..Len(ok) : last.result.files[k].file_id = ok[k]

\* Three files, the second one's request meets a transport error: the result
\* holds the first and the third, file_count 2.
C4_Witness ==
    /\ DownloadListed
    /\ Len(last.calls) = 6
    /\ C4_Complete(last.answers[4])
    /\ last.answers[5].kind = "transport"
    /\ C4_Complete(last.answers[6])
    /\ last.result.status = "success"
    /\ last.result.file_count = 2
    /\ last.result.files[1].file_id = FileId(1)
    /\ last.result.files[2].file_id = FileId(3)

NoFilesMessage == "Failed to download results: Failed to download any files"

\* C5: a download in which no file succeeded, every file having failed or
\* been skipped, is an overall failure ("Failed to download any files"); a
\* successful download result holds at least one file.
C5_ZeroSuccessIsFailure ==
    Returned("download") =>
        /\ last.result.status = "success" =>
               (last.result.file_count >= 1 /\ Len(last.result.files) >= 1)
        /\ (DownloadListed
              /\ C4_Succeeded(DownloadIds, DownloadAnswers, 1) = << >>) =>
               (last.result.status = "error"
                  /\ last.result.message = NoFilesMessage)

\* Three files requested, none of them downloaded.
C5_Witness ==
    /\ DownloadListed
    /\ Len(last.calls) = 6
    /\ \A k \in 4..6 : ~C4_Complete(last.answers[k])
    /\ last.result.status = "error"
    /\ last.result.message = NoFilesMessage

----------------------------------------------------------------------------
\* The normalized status of a status field that is a string or is absent
\* (an absent field reads "unknown", which is no key of the mapping).
C6_Normalized(s) == IF s = Missing THEN "pending" ELSE C2_Expected(s)

\* The first request of the call fetched a status that normalizes.
StatusFetched ==
    StatusAnswered(1) /\ last.answers[1].body.status # NullValue

NotReadyMessage(job_status) ==
    "Job " \o JobId \o " is not completed (current status: " \o job_status \o ")"

\* C6: when the job's normalized status is anything other than completed,
\* download and list_files fail with the not-completed error, send no
\* bundle-listing request (GET bundle/<job_id>), create no folder and write
\* no file.
C6_NotReadyTouchesNothing ==
    \A op \in {"download", "list_files"} :
        (Returned(op) /\ StatusFetched
            /\ C6_Normalized(last.answers[1].body.status) # "completed") =>
            /\ last.result.status = "error"
            /\ last.result.message =
                   NotReadyMessage(C6_Normalized(last.answers[1].body.status))
            /\ \A i \in DOMAIN last.calls :
                   last.calls[i].endpoint # BundleEndpoint
            /\ last.fs = NoFs

\* list_files on a running job.
C6_Witness ==
    /\ Returned("list_files")
    /\ StatusFetched
    /\ last.answers[1].body.status = S_running
    /\ last.result.status = "error"
    /\ last.result.message = NotReadyMessage("running")
    /\ Len(last.calls) = 1

\* C7: list_files on a completed job whose resolved bundle list is empty is
\* an error, not a success with zero files; the same holds for download.
C7_EmptyBundleIsError ==
    /\ (Returned("list_files") /\ BundleAnswered(2)
          /\ C3_HasListing(last.answers[2].body)
          /\ C3_Listed(last.answers[2].body) = << >>) =>
           last.result.status = "error"
    /\ (Returned("download") /\ BundleAnswered(3)
          /\ C3_HasListing(last.answers[3].body)
          /\ C3_Listed(last.answers[3].body) = << >>) =>
           last.result.status = "error"

----------------------------------------------------------------------------
TerminalStatuses == {"completed", "failed", "cancelled"}

AlreadyTerminalMessage(job_status) ==
    "Cannot cancel job " \o JobId \o " - it is already " \o job_status

C9_CancelOutcomes ==
    (Returned("cancel") /\ StatusFetched
        /\ C6_Normalized(last.answers[1].body.status) \notin TerminalStatuses) =>
        /\ Len(last.calls) = 2
        /\ last.calls[2].method = "DELETE"
        /\ last.calls[2].endpoint = TaskEndpoint
        /\ LET a == last.answers[2]
           IN  /\ (a.kind = "response" /\ a.code = 405) =>
                      (last.result.status = "error"
                         /\ last.result.message = CancelUnsupported)
               /\ (a.kind = "response" /\ a.code \notin 200..299 /\ a.code # 405) =>
                      (last.result.status = "error"
                         /\ last.result.message # CancelUnsupported)
               /\ last.result.status = "success" =>
                      (a.kind = "response" /\ a.code \in 200..299)

----------------------------------------------------------------------------
\* The dates of a submit, and what is to go over the wire for them.
C10_WellFormed == {D_iso}
C10_NoDate == {D_dmy, D_feb30}
C10_Wire ==
    (D_iso :> <<"0","1","-","1","5","-","2","0","2","0">>) @@
    (D_short :> <<"0","1","-","0","5","-","2","0","2","0">>)

SubmitSent ==
    /\ Len(last.calls) = 1
    /\ last.calls[1].method = "POST"
    /\ last.calls[1].endpoint = "task"
    /\ last.calls[1].payload.dates[1].startDate = C10_Wire[last.arg[1]]
    /\ last.calls[1].payload.dates[1].endDate = C10_Wire[last.arg[2]]

SubmitRejected ==
    /\ last.result.status = "error"
    /\ last.calls = << >>

----------------------------------------------------------------------------
Operations ==
    {"submit", "status", "list_files", "download", "list_jobs", "details",
     "cancel", "progress"}

----------------------------------------------------------------------------
\* C12: token renewal is single-flight: of the concurrent callers that find
\* the lease invalid, at most one has a login request in flight at any moment.
C12_SingleFlight ==
    Cardinality({k \in Callers : callers[k] = "login_in_flight"}) <= 1

----------------------------------------------------------------------------
\* The login was answered with a token and an expiration that parses.
LoginOk(a) == a.kind = "response" /\ a.code = 200 /\ a.body.json = "login"

\* A tool call returns from a state in which the lease is invalid.
CallOnInvalidLease ==
    /\ phase = "idle"
    /\ phase' = "returned"
    /\ last'.calls # << >>
    /\ (token = "" \/ token_expiry = None \/ now >= token_expiry[1])

\* C13: a failed renewal fails only the request that triggered it and does
\* not poison the lease: after it the lease is still invalid (the call sent
\* nothing but the login and returned an error); a call on an invalid lease,
\* in particular the next one after a failed renewal, starts with a fresh
\* login, and when that login succeeds its request goes out with the new token.
C13_FailedRenewalDoesNotPoison ==
    [][ CallOnInvalidLease =>
            /\ last'.calls[1].endpoint = "login"
            /\ IF LoginOk(last'.answers[1])
               THEN /\ renewal' # "failed"
                    /\ Len(last'.calls) >= 2
                    /\ last'.calls[2].endpoint # "login"
                    /\ last'.calls[2].bearer = "Bearer " \o last'.answers[1].body.token
                    /\ token' = last'.answers[1].body.token
               ELSE /\ renewal' = "failed"
                    /\ Len(last'.calls) = 1
                    /\ last'.result.status = "error"
                    /\ token_expiry' = token_expiry
                    /\ now' >= token_expiry'[1] ]_vars

\* Recovery: the renewal before this call's had failed; this call's login
\* succeeded and its request went out with the new token.
C13_Witness ==
    /\ Returned("status")
    /\ renewal = "recovered"
    /\ Len(last.calls) = 2
    /\ LoginOk(last.answers[1])
    /\ last.calls[2].bearer = "Bearer " \o token
    /\ token_expiry = Some(granted - Buffer)
    /\ last.result.status = "success"

----------------------------------------------------------------------------
\* The root a download is to put its folder under.
OutputRoot == IF last.arg = NoPath THEN DownloadPath ELSE last.arg

\* C14: a successful download has created its folder at
\* output_root/task_<job_id>, for every output root, whether or not the folder
\* was there before.
C14_FolderUnderRoot ==
    (Returned("download") /\ last.result.status = "success") =>
        /\ last.result.download_folder = Append(OutputRoot, "task_" \o JobId)
        /\ last.result.download_folder \in folders

----------------------------------------------------------------------------
SubmitFailedPrefix == "Failed to submit AppEEARS job: "

\* The last request of the call was the task submission, answered 200 with
\* a task id.
SubmissionAccepted ==
    /\ last.calls # << >>
    /\ last.calls[Len(last.calls)].method = "POST"
    /\ last.calls[Len(last.calls)].endpoint = "task"
    /\ last.answers[Len(last.answers)].kind = "response"
    /\ last.answers[Len(last.answers)].code = 200
    /\ last.answers[Len(last.answers)].body.json = "task_id"

\* The last request of the call, the login or the submission, raised.
GatewayFailed ==
    last.errors # << >> /\ last.errors[Len(last.errors)] # ""

\* C15: submit succeeds exactly when the submission was accepted, and then
\* returns the task id of the response as the job id; when the gateway
\* failed it returns an error whose message carries the gateway's message;
\* an error result reports no job id.
C15_SubmitResult ==
    Returned("submit") =>
        /\ last.result.status = "success" <=> SubmissionAccepted
        /\ SubmissionAccepted =>
               last.result.job_id = last.answers[Len(last.answers)].body.task_id
        /\ GatewayFailed =>
               last.result.message =
                   SubmitFailedPrefix \o last.errors[Len(last.errors)]
        /\ last.result.status = "error" => "job_id" \notin DOMAIN last.result

\* The submission is answered 500: the error carries "500 Error".
C15_Witness ==
    /\ Returned("submit")
    /\ last.calls # << >>
    /\ last.calls[Len(last.calls)].endpoint = "task"
    /\ last.answers[Len(last.answers)].code = 500
    /\ last.result.status = "error"
    /\ last.result.message = SubmitFailedPrefix \o HTTPError(500).msg

----------------------------------------------------------------------------
\* C16: the lease is replaced wholesale: whenever the held token or the held
\* expiry changes, both are those of one successful login answer of the call
\* that changed them.
C16_LeaseReplacedWholesale ==
    [][ (token' # token \/ token_expiry' # token_expiry) =>
            \E i \in DOMAIN last'.calls :
                /\ last'.calls[i].endpoint = "login"
                /\ LoginOk(last'.answers[i])
                /\ token' = last'.answers[i].body.token
                /\ token_expiry' =
                       Some(last'.answers[i].body.expiration.instant - Buffer) ]_vars

----------------------------------------------------------------------------
\* The successful logins of the call before its i-th request.
LoginsBefore(calls, answers, i) ==
    {j \in 1..(i - 1) : calls[j].endpoint = "login" /\ LoginOk(answers[j])}

\* The token the lease holds when the i-th request of the call is sent.
TokenAt(calls, answers, i) ==
    LET oks == LoginsBefore(calls, answers, i)
    IN  IF oks = {} THEN token
        ELSE answers[CHOOSE j \in oks : \A k \in oks : k <= j].body.token

\* C17: every request the gateway sends follows the check of the lease in
\* the same call: it is sent on a valid lease only, after the login when the
\* lease was invalid, and carries "Bearer " and the token the lease then
\* holds; after a login that failed no request is sent.
C17_RequestsFollowEnsureValid ==
    [][ (phase = "idle" /\ phase' = "returned") =>
            \A i \in DOMAIN last'.calls :
                IF last'.calls[i].endpoint = "login"
                THEN last'.errors[i] # "" =>
                         (i = Len(last'.calls) \/ last'.calls[i + 1].endpoint = "login")
                ELSE /\ last'.calls[i].bearer =
                            "Bearer " \o TokenAt(last'.calls, last'.answers, i)
                     /\ \/ LoginsBefore(last'.calls, last'.answers, i) # {}
                        \/ (token # "" /\ token_expiry # None /\ now < token_expiry[1]) ]_vars

\* The lease was invalid: the login came first and the request carries the
\* token of the login's answer.
C17_Witness ==
    /\ Returned("status")
    /\ Len(last.calls) = 2
    /\ LoginOk(last.answers[1])
    /\ last.answers[1].body.token = "tokB"
    /\ last.calls[2].bearer = "Bearer tokB"
    /\ last.result.status = "success"

----------------------------------------------------------------------------
\* C18: a request of the gateway raises for any answer that is not 2xx and
\* returns the response only for 2xx.
C18_NonSuccessRaises ==
    phase = "returned" =>
        \A i \in DOMAIN last.calls :
            (last.calls[i].endpoint # "login" /\ last.answers[i].kind = "response") =>
                (last.errors[i] = "" <=> last.answers[i].code \in 200..299)

----------------------------------------------------------------------------
CredentialsRejected == "Invalid AppEEARS credentials"

\* The messages of the login failures other than the rejection.
ExchangeErrors ==
    {"Failed to get authentication token: " \o m :
        m \in {ConnectionError.msg, JSONDecodeError.msg, "Invalid isoformat string"}
              \cup {HTTPError(code).msg : code \in LoginErrorCodes \ {401}}}

Rejected(a) == a.kind = "response" /\ a.code = 401

\* C19: a login answered 401 fails with the credentials-rejected error, every
\* other login failure with a credential-exchange error that differs from
\* it; the 401 is not retried: the login is the only login, and the last
\* request, of the call, which returns an error.
C19_RejectedCredentials ==
    phase = "returned" =>
        \A i \in DOMAIN last.calls :
            last.calls[i].endpoint = "login" =>
                /\ Rejected(last.answers[i]) =>
                       /\ last.errors[i] = CredentialsRejected
                       /\ Logins(last.calls) = {i}
                       /\ Len(last.calls) = i
                       /\ last.result.status = "error"
                /\ (~Rejected(last.answers[i]) /\ ~LoginOk(last.answers[i])) =>
                       /\ last.errors[i] \in ExchangeErrors
                       /\ last.errors[i] # CredentialsRejected
                /\ LoginOk(last.answers[i]) => last.errors[i] = ""

\* A status call whose login is answered 401.
C19_Witness ==
    /\ Returned("status")
    /\ Len(last.calls) = 1
    /\ last.calls[1].endpoint = "login"
    /\ Rejected(last.answers[1])
    /\ last.result.status = "error"
    /\ last.result.message = "Failed to check job status: " \o CredentialsRejected

----------------------------------------------------------------------------
\* C20: the process holds one lease: the job operations and the other tools
\* of the server use the same token and expiry, so that a renewal done for
\* one operation is the lease of all others.
C20_OneLease ==
    /\ server.token = token
    /\ server.token_expiry = token_expiry

----------------------------------------------------------------------------
\* The requests of the call to GET task/<job_id>.
C21_Fetches ==
    {i \in DOMAIN last.calls :
        last.calls[i].method = "GET" /\ last.calls[i].endpoint = TaskEndpoint}

\* C21: every status call fetches the job's state from the remote system,
\* with one GET task/<job_id> (none only when the login before it failed),
\* and a status it reports is the one of that response, which is the remote
\* state at the time of the call: nothing of an earlier call is reused.
C21_StatusAlwaysFetched ==
    Returned("status") =>
        /\ Cardinality(C21_Fetches) <= 1
        /\ C21_Fetches = {} =>
               (last.calls # << >> /\ last.errors[Len(last.calls)] # ""
                  /\ last.calls[Len(last.calls)].endpoint = "login")
        /\ last.result.status = "success" =>
               /\ C21_Fetches = {Len(last.calls)}
               /\ StatusAnswered(Len(last.calls))
               /\ last.answers[Len(last.calls)].body.status = task
               /\ last.result.api_status = Get([status |-> task], "status", S_unknown)
               /\ last.result.job_status = C6_Normalized(task)

\* A job that is done is reported completed by a call that has fetched it.
C21_Witness ==
    /\ Returned("status")
    /\ task = S_done
    /\ C21_Fetches = {1}
    /\ last.result.status = "success"
    /\ last.result.job_status = "completed"

----------------------------------------------------------------------------
\* The last request of the call fetched the job, with a status field that
\* normalizes (a string, or absent).
C22_Fetched ==
    /\ last.calls # << >>
    /\ StatusAnswered(Len(last.calls))
    /\ last.answers[Len(last.calls)].body.status # NullValue

\* C22: a `created` field that is absent, null or no timestamp never makes
\* the status call fail: the call succeeds with the normalized job status,
\* and elapsed_time is None.
C22_CreatedNeverFatal ==
    (Returned("status") /\ C22_Fetched
        /\ last.answers[Len(last.calls)].body.created
               \in {Missing, NullValue, CreatedBad}) =>
        /\ last.result.status = "success"
        /\ last.result.job_status =
               C6_Normalized(last.answers[Len(last.calls)].body.status)
        /\ last.result.elapsed_time = None

\* A running job whose `created` is no timestamp: running, no elapsed time.
C22_Witness ==
    /\ Returned("status")
    /\ C22_Fetched
    /\ last.answers[Len(last.calls)].body.created = CreatedBad
    /\ last.answers[Len(last.calls)].body.status = S_running
    /\ last.result.status = "success"
    /\ last.result.job_status = "running"
    /\ last.result.elapsed_time = None

----------------------------------------------------------------------------
\* The name the entry e of a bundle is to be saved under: its file_name, or
\* file_<id> when it has none.
C23_NameOf(e) ==
    IF e.type = "dict" /\ e.file_name # NoneS THEN e.file_name
    ELSE "file_" \o e.file_id

\* C23: a dict entry supplies file_id and file_name, a bare string is the
\* file id; every downloaded file is saved under its entry's file_name, and
\* under file_<id> when the entry has no file_name (a dict without it, or a
\* bare string).
C23_DefaultFileName ==
    (DownloadListed /\ last.result.status = "success") =>
        \A k \in DOMAIN last.result.files :
            \E i \in DOMAIN C3_Listed(last.answers[3].body) :
                LET e == C3_Listed(last.answers[3].body)[i]
                IN  /\ C4_Resolvable(e)
                    /\ last.result.files[k].file_id = e.file_id
                    /\ last.result.files[k].file_name = C23_NameOf(e)

----------------------------------------------------------------------------
\* The requests of the download after the listing: the file requests.
C24_FileRequests ==
    {i \in DOMAIN last.calls : i > 3 /\ last.calls[i].endpoint # "login"}

\* C24: a bundle entry without a resolvable file id (a dict without file_id,
\* an empty id, an entry that is neither dict nor string) is skipped: no
\* request is sent for it, and the loop goes on, every later entry that
\* names a file being requested.
C24_UnresolvableSkipped ==
    DownloadListed =>
        LET L == C3_Listed(last.answers[3].body)
            resolvable == {i \in DOMAIN L : C4_Resolvable(L[i])}
        IN  /\ \A i \in C24_FileRequests :
                  \E j \in resolvable :
                      last.calls[i].endpoint = BundleEndpoint \o "/" \o L[j].file_id
            /\ Cardinality(C24_FileRequests) = Cardinality(resolvable)
            /\ \A k \in DOMAIN L : \A j \in resolvable :
                  (~C4_Resolvable(L[k]) /\ j > k) =>
                      \E i \in C24_FileRequests :
                          last.calls[i].endpoint =
                              BundleEndpoint \o "/" \o L[j].file_id

\* Three entries, the second a dict without file_id: the first and the
\* third are requested and downloaded.
C24_Witness ==
    /\ DownloadListed
    /\ Len(C3_Listed(last.answers[3].body)) = 3
    /\ C3_Listed(last.answers[3].body)[2].type = "dict"
    /\ C3_Listed(last.answers[3].body)[2].file_id = NoneS
    /\ Len(last.calls) = 5
    /\ last.calls[4].endpoint = BundleEndpoint \o "/" \o FileId(1)
    /\ last.calls[5].endpoint = BundleEndpoint \o "/" \o FileId(3)
    /\ last.result.status = "success"
    /\ last.result.file_count = 2

----------------------------------------------------------------------------
TaskNotCompleteMessage(api_status) ==
    "Failed to download results: Task is not complete. Current status: "
        \o Str(api_status)

\* C25: a remote status that the status tracker normalizes to completed, in
\* whatever letter case, is accepted by the download's own completion check:
\* with the remote state unchanged, a download of a job the tracker reports
\* completed goes on to the bundle listing and never fails with "not
\* complete".
C25_CompletionChecksAgree ==
    (Returned("download") /\ StatusFetched
        /\ C6_Normalized(last.answers[1].body.status) = "completed"
        /\ StatusAnswered(2)
        /\ last.answers[2].body.status = last.answers[1].body.status) =>
        /\ ~(last.result.status = "error"
               /\ last.result.message =
                      TaskNotCompleteMessage(last.answers[2].body.status))
        /\ Len(last.calls) >= 3
        /\ last.calls[3].endpoint = BundleEndpoint

----------------------------------------------------------------------------
\* The requests of the call for the bundle listing, and for a file.
C26_ListingRequests ==
    {i \in DOMAIN last.calls : last.calls[i].endpoint = BundleEndpoint}

C26_FileEndpoint(file_id) == BundleEndpoint \o "/" \o file_id

C26_FileRequests ==
    {i \in DOMAIN last.calls :
        \E k \in 1..MaxFiles : last.calls[i].endpoint = C26_FileEndpoint(FileId(k))}

\* C26: the remote calls of one download are ordered: the bundle listing is
\* requested only after a status response of this download has reported the
\* job done; a file is requested only after the listing has been answered;
\* the files are requested in the order of the listing, each entry at most
\* once, a failed file not being tried again.
C26_DownloadOrder ==
    Returned("download") =>
        /\ Cardinality(C26_ListingRequests) <= 1
        /\ \A b \in C26_ListingRequests :
              \E s \in 1..(b - 1) :
                  /\ last.calls[s].endpoint = TaskEndpoint
                  /\ StatusAnswered(s)
                  /\ last.answers[s].body.status = S_done
        /\ \A f \in C26_FileRequests :
              \E b \in C26_ListingRequests :
                  /\ b < f
                  /\ BundleAnswered(b)
                  /\ C3_HasListing(last.answers[b].body)
                  /\ \E j \in DOMAIN C3_Listed(last.answers[b].body) :
                        /\ C4_Resolvable(C3_Listed(last.answers[b].body)[j])
                        /\ last.calls[f].endpoint =
                               C26_FileEndpoint(
                                   C3_Listed(last.answers[b].body)[j].file_id)
        /\ \A f \in C26_FileRequests : \A g \in C26_FileRequests :
              f < g =>
                  \A b \in C26_ListingRequests :
                      LET L == C3_Listed(last.answers[b].body)
                          pos(i) == CHOOSE j \in DOMAIN L :
                                       /\ C4_Resolvable(L[j])
                                       /\ last.calls[i].endpoint =
                                              C26_FileEndpoint(L[j].file_id)
                      IN  pos(f) < pos(g)

\* Three files: the status twice, the listing, then the files in order; the
\* second is answered 500 and the third breaks midway, neither is asked for
\* again.
C26_Witness ==
    /\ Returned("download")
    /\ Len(last.calls) = 6
    /\ C26_ListingRequests = {3}
    /\ C26_FileRequests = {4, 5, 6}
    /\ \A k \in 1..3 : last.calls[3 + k].endpoint = C26_FileEndpoint(FileId(k))
    /\ C4_Complete(last.answers[4])
    /\ last.answers[5].kind = "response" /\ last.answers[5].code = 500
    /\ last.answers[6].kind = "response" /\ last.answers[6].code = 200
    /\ ~last.answers[6].body.complete
    /\ last.result.status = "success"
    /\ last.result.file_count = 1

----------------------------------------------------------------------------
\* The paths of the files the call has opened for writing, and of the files
\* its result lists.
C27_OnDisk == {last.fs.written[i].file_path : i \in DOMAIN last.fs.written}

C27_InResult ==
    IF last.result.status = "success"
    THEN {last.result.files[k].file_path : k \in DOMAIN last.result.files}
    ELSE {}

\* C27: after a download has returned, with success or with an error, the
\* files the call left in the task folder are exactly the files its result
\* lists: a file whose transfer failed, also midway through the stream, is
\* not in the result and has left nothing on disk.
C27_DiskMatchesResult ==
    Returned("download") => C27_OnDisk = C27_InResult

----------------------------------------------------------------------------
\* The download's listing request (its third) was answered with JSON that
\* holds no file list, or an empty one.
C28_NothingListed ==
    /\ Len(last.answers) >= 3
    /\ last.calls[3].endpoint = BundleEndpoint
    /\ last.answers[3].kind = "response"
    /\ last.answers[3].code = 200
    /\ last.answers[3].body.json \in {"list", "dict", "null"}
    /\ \/ ~C3_HasListing(last.answers[3].body)
       \/ C3_Listed(last.answers[3].body) = << >>

\* C28: when the bundle listing has an unexpected shape or resolves to an
\* empty list, download returns an error and has created no folder, written
\* no file and sent no request after the listing.
C28_BadListingTouchesNothing ==
    [][ (phase = "idle" /\ phase' = "returned" /\ last'.op = "download"
           /\ C28_NothingListed') =>
            /\ last'.result.status = "error"
            /\ folders' = folders
            /\ last'.fs = NoFs
            /\ Len(last'.calls) = 3 ]_vars

\* The listing is an object without "files" and "data": the error, three
\* requests, nothing on disk.
C28_Witness ==
    /\ Returned("download")
    /\ C28_NothingListed
    /\ last.answers[3].body.json = "dict"
    /\ last.answers[3].body.keys = {"foo"}
    /\ last.result.status = "error"
    /\ last.result.message =
           "Failed to download results: Unexpected bundle response format"
    /\ Len(last.calls) = 3
    /\ last.fs = NoFs
    /\ \A p \in folders : Len(p) = 1

----------------------------------------------------------------------------
RECURSIVE C29_BytesOf(_, _)
\* The bytes of the files among the first n that were written to the end.
C29_BytesOf(written, n) ==
    IF n = 0 THEN 0
    ELSE (IF written[n].complete THEN written[n].bytes ELSE 0)
         + C29_BytesOf(written, n - 1)

\* C29: in a successful download result file_count is the number of entries
\* of files and total_size the sum of their file_size, each file_size being
\* the number of bytes written for that file; files that failed or were
\* skipped add nothing to either.
C29_CountAndSize ==
    (Returned("download") /\ last.result.status = "success") =>
        LET files == last.result.files
            written == last.fs.written
            whole == {i \in DOMAIN written : written[i].complete}
        IN  /\ last.result.file_count = Len(files)
            /\ last.result.file_count = Cardinality(whole)
            /\ \A k \in DOMAIN files :
                  \E i \in whole :
                      /\ written[i].file_path = files[k].file_path
                      /\ written[i].bytes = files[k].file_size
            /\ last.result.total_size = C29_BytesOf(written, Len(written))

\* Three files of 1, 2 and 3 bytes, the second one's stream breaks after its
\* first byte: two files, 4 bytes.
C29_Witness ==
    /\ Returned("download")
    /\ last.result.status = "success"
    /\ Len(last.fs.written) = 3
    /\ ~last.fs.written[2].complete
    /\ last.fs.written[2].bytes = 1
    /\ last.result.file_count = 2
    /\ last.result.files[1].file_size = 1
    /\ last.result.files[2].file_size = 3
    /\ last.result.total_size = 4

----------------------------------------------------------------------------
\* The call's request for the job (or the jobs) was answered with the
\* remote status field of this state.
C30_Answered(json) ==
    /\ last.calls # << >>
    /\ last.answers[Len(last.calls)].kind = "response"
    /\ last.answers[Len(last.calls)].code = 200
    /\ last.answers[Len(last.calls)].body.json = json

C30_Agree(api_status, job_status) ==
    /\ job_status = NormalizeStatus(api_status)
    /\ job_status = JobsStatus(api_status)
    /\ job_status = DetailsStatus(api_status)

\* C30: the three copies of the status normalization, in status, in the job
\* listing and in the job details, are one function: for every remote
\* status, a missing status field included, the three operations report the
\* same job status, and where one of them fails (a null status) all do.
C30_CopiesAgree ==
    /\ IsStr(task) =>
          /\ NormalizeStatus(task) = JobsStatus(task)
          /\ JobsStatus(task) = DetailsStatus(task)
    /\ \A op \in {"status", "details"} :
          (Returned(op) /\ C30_Answered("task")) =>
              /\ last.result.status = "success" <=> task # NullValue
              /\ last.result.status = "success" =>
                    /\ last.result.api_status = Get([status |-> task], "status", S_unknown)
                    /\ C30_Agree(last.result.api_status, last.result.job_status)
    /\ (Returned("list_jobs") /\ C30_Answered("jobs")
          /\ last.answers[Len(last.calls)].body.jobs # << >>) =>
              /\ last.result.status = "success" <=> task # NullValue
              /\ last.result.status = "success" =>
                    \A i \in DOMAIN last.result.jobs :
                        /\ last.result.jobs[i].api_status =
                               Get([status |-> task], "status", S_unknown)
                        /\ C30_Agree(last.result.jobs[i].api_status,
                                     last.result.jobs[i].status)

\* The job listing of a job without a status field: "unknown", reported as
\* pending, as status and details report it.
C30_Witness ==
    /\ Returned("list_jobs")
    /\ C30_Answered("jobs")
    /\ task = Missing
    /\ last.result.status = "success"
    /\ Len(last.result.jobs) = 1
    /\ last.result.jobs[1].api_status = S_unknown
    /\ last.result.jobs[1].status = "pending"

====
